---------------------------- MODULE Spec2Model ----------------------------
(***************************************************************************)
(* FiniteGCAlgebra (sage/algebras/commutative_graded_algebra_finite.py):   *)
(* finitely generated graded commutative algebras truncated at a maximal   *)
(* degree.  The model covers the normalisation of the constructor          *)
(* arguments, the unique-instance cache behind it, the construction of the *)
(* index set of the basis, the product and degree hooks on basis indices   *)
(* and the generator accessors.                                            *)
(*                                                                         *)
(* Strings are sequences of one-character strings, tuples and lists are    *)
(* sequences, an element of the algebra is a record [coef, idx] (the       *)
(* elements met here are zero or plus/minus one basis monomial).           *)
(***************************************************************************)
EXTENDS Integers, Sequences, FiniteSets

VARIABLES cache, objs, ret, self, acc, factors

vars == <<cache, objs, ret, self, acc, factors>>

---------------------------------------------------------------------------
(* Bounds of the model *)

MaxGens == 2

MaxGenDegree == 2

MaxMaxDegree == 4

MaxInstances == 2

MaxFactors == 3

---------------------------------------------------------------------------
(* Small helpers *)

Max(a, b) == IF a >= b THEN a ELSE b

Min(a, b) == IF a <= b THEN a ELSE b

RECURSIVE Gcd2(_, _)
Gcd2(a, b) == IF b = 0 THEN a ELSE Gcd2(b, a % b)

SeqsUpTo(S, n) == UNION {[1..k -> S] : k \in 0..n}

NoValue == <<>>

---------------------------------------------------------------------------
(* Python builtins used by __classcall__ *)

\* str.split(','): cut at every comma, keeping empty pieces
RECURSIVE Split(_)
Split(s) ==
    IF \A i \in 1..Len(s) : s[i] # ","
    THEN <<s>>
    ELSE LET c == CHOOSE i \in 1..Len(s) :
                      s[i] = "," /\ \A j \in 1..(i - 1) : s[j] # ","
         IN  <<SubSeq(s, 1, c - 1)>> \o Split(SubSeq(s, c + 1, Len(s)))

DigitChars == <<"0", "1", "2", "3", "4", "5", "6", "7", "8", "9">>

\* 'x{}'.format(i), for the one-digit i the model reaches
DefaultName(i) == <<"x", DigitChars[i + 1]>>

\* max(degrees) of a non-empty tuple
RECURSIVE MaxOf(_)
MaxOf(t) == IF Len(t) = 1 THEN t[1] ELSE Max(t[1], MaxOf(Tail(t)))

\* gcd(degrees)
RECURSIVE Gcd(_)
Gcd(t) == IF Len(t) = 0 THEN 0 ELSE Gcd2(t[1], Gcd(Tail(t)))

---------------------------------------------------------------------------
(* Arguments of the constructor *)

None == [kind |-> "none", val |-> <<>>]

\* names given as one string: 'x', 'x,y' and 'x,' (a trailing comma)
StrNames == {<<"x">>, <<"x", ",", "y">>, <<"x", ",">>}

\* names given as a list: [], ['x'] and ['x', 'y']
ListNames == {<<>>, <<(<<"x">>)>>, <<(<<"x">>), (<<"y">>)>>}

Bases == {"QQ"}

NamesArgs ==
    {None}
    \cup {[kind |-> "str", val |-> s] : s \in StrNames}
    \cup {[kind |-> "list", val |-> l] : l \in ListNames}

DegreesArgs ==
    {None}
    \cup {[kind |-> k, val |-> d] :
            k \in {"list", "tuple"}, d \in SeqsUpTo(1..MaxGenDegree, MaxGens)}

MaxDegreeArgs == 0..MaxMaxDegree

\* for the validation of a construction: max_degree below, at and above
\* the degrees
ConstructMaxDegreeArgs == 0..MaxGenDegree

---------------------------------------------------------------------------
(* WeightedIntegerVectors(degrees): exponent vectors and their grading *)

\* grading(w): sum(exp * deg for exp, deg in zip(w, weights))
RECURSIVE grading(_, _)
grading(w, weights) ==
    IF Len(w) = 0 \/ Len(weights) = 0
    THEN 0
    ELSE w[1] * weights[1] + grading(Tail(w), Tail(weights))

\* WeightedIntegerVectors(k, degrees): the vectors of weighted sum k
WeightedIntegerVectors(k, degrees) ==
    {w \in [1..Len(degrees) -> 0..k] : grading(w, degrees) = k}

\* range(0, stop, step)
Range(stop, step) == {k \in 0..(stop - 1) : k % step = 0}

---------------------------------------------------------------------------
(* Elements: zero, or a basis monomial with a coefficient *)

zero == [coef |-> 0, idx |-> <<>>]

monomial(w) == [coef |-> 1, idx |-> w]

Neg(e) == [coef |-> 0 - e.coef, idx |-> e.idx]

---------------------------------------------------------------------------
(* __classcall__: normalisation of the arguments *)

ErrNoNames == "You must specify names or degrees"

ErrMaxDegree == "max_degree must not deceed"

ErrEmptyMax == "max() arg is an empty sequence"

\* variant: a string of names is not split at the commas
NormNames_NoSplit(names, degrees) ==
    IF names.kind = "none"
    THEN [i \in 1..Len(degrees.val) |-> DefaultName(i - 1)]
    ELSE IF names.kind = "str"
         THEN <<names.val>>
         ELSE names.val

\* lines 80-91: names as a tuple, n the number of generators
NormNames(names, degrees) ==
    IF names.kind = "none"
    THEN [i \in 1..Len(degrees.val) |-> DefaultName(i - 1)]
    ELSE IF names.kind = "str"
         THEN Split(names.val)
         ELSE names.val

\* lines 92-95: degrees as a tuple
NormDegrees(degrees, n) ==
    IF degrees.kind = "none" THEN [i \in 1..n |-> 1] ELSE degrees.val

\* variant: max_degree <= max(degrees) is refused
NormalizeArgs_Strict(names, degrees, max_degree) ==
    IF names.kind = "none" /\ degrees.kind = "none"
    THEN [raised |-> ErrNoNames, names |-> <<>>, degrees |-> <<>>]
    ELSE LET nm == NormNames(names, degrees)
             dg == NormDegrees(degrees, Len(nm))
         IN  IF Len(dg) = 0
             THEN [raised |-> ErrEmptyMax, names |-> <<>>, degrees |-> <<>>]
             ELSE IF max_degree <= MaxOf(dg)
                  THEN [raised |-> ErrMaxDegree, names |-> <<>>,
                        degrees |-> <<>>]
                  ELSE [raised |-> "", names |-> nm, degrees |-> dg]

\* lines 80-97: the error raised, or the normalised names and degrees
NormalizeArgs(names, degrees, max_degree) ==
    IF names.kind = "none" /\ degrees.kind = "none"
    THEN [raised |-> ErrNoNames, names |-> <<>>, degrees |-> <<>>]
    ELSE LET nm == NormNames(names, degrees)
             dg == NormDegrees(degrees, Len(nm))
         IN  IF Len(dg) = 0
             THEN [raised |-> ErrEmptyMax, names |-> <<>>, degrees |-> <<>>]
             ELSE IF max_degree < MaxOf(dg)
                  THEN [raised |-> ErrMaxDegree, names |-> <<>>,
                        degrees |-> <<>>]
                  ELSE [raised |-> "", names |-> nm, degrees |-> dg]

\* the key of the unique-instance cache: the keyword arguments of line 99-102
CacheKey(base, nm, dg, max_degree) ==
    [base |-> base, names |-> nm, degrees |-> dg, max_degree |-> max_degree]

---------------------------------------------------------------------------
(* __init__ *)

\* variant: range(0, max_deg, step), which leaves max_deg out
Indices_OpenRange(degrees, max_deg) ==
    UNION {WeightedIntegerVectors(k, degrees) :
             k \in Range(max_deg, Gcd(degrees))}

\* lines 125-127: the indices of the basis
Indices(degrees, max_deg) ==
    UNION {WeightedIntegerVectors(k, degrees) :
             k \in Range(max_deg + 1, Gcd(degrees))}

\* lines 120-133: the attributes of a new instance
NewInstance(base, max_degree, names, degrees) ==
    [base     |-> base,
     names    |-> names,
     ngens    |-> Len(names),
     degrees  |-> degrees,
     max_deg  |-> max_degree,
     indices  |-> Indices(degrees, max_degree)]

KeyOf(o) == CacheKey(o.base, o.names, o.degrees, o.max_deg)

---------------------------------------------------------------------------
(* State *)

Objects == 1..Len(objs)

NoArgs == [base |-> "", names |-> None, degrees |-> None, max_degree |-> 0]

NoRet == [op |-> "", obj |-> 0, args |-> NoArgs, raised |-> "", value |-> NoValue]

Init ==
    /\ cache = <<>>
    /\ objs = <<>>
    /\ ret = NoRet
    /\ self = 0
    /\ acc = zero
    /\ factors = <<>>

\* lines 58-102: normalise, then return the cached instance of the key or
\* construct and cache a new one
Classcall(base, names, degrees, max_degree) ==
    LET norm == NormalizeArgs(names, degrees, max_degree)
        args == [base |-> base, names |-> names, degrees |-> degrees,
                 max_degree |-> max_degree]
        key == CacheKey(base, norm.names, norm.degrees, max_degree)
    IN  /\ ret = NoRet
        /\ UNCHANGED <<self, acc, factors>>
        /\ IF norm.raised # ""
           THEN /\ ret' = [op |-> "classcall", obj |-> 0, args |-> args,
                           raised |-> "ValueError", value |-> norm.raised]
                /\ UNCHANGED <<cache, objs>>
           ELSE IF key \in DOMAIN cache
                THEN /\ ret' = [op |-> "classcall", obj |-> cache[key],
                                args |-> args, raised |-> "",
                                value |-> NoValue]
                     /\ UNCHANGED <<cache, objs>>
                ELSE /\ Len(objs) < MaxInstances
                     /\ objs' = Append(objs, NewInstance(base, max_degree,
                                                 norm.names, norm.degrees))
                     /\ cache' = [k \in DOMAIN cache \cup {key} |->
                                    IF k = key THEN Len(objs) + 1 ELSE cache[k]]
                     /\ ret' = [op |-> "classcall", obj |-> Len(objs) + 1,
                                args |-> args, raised |-> "",
                                value |-> NoValue]

Construct ==
    \E base \in Bases, names \in NamesArgs, degrees \in DegreesArgs,
       max_degree \in ConstructMaxDegreeArgs :
        Classcall(base, names, degrees, max_degree)

---------------------------------------------------------------------------
(* Generator accessors *)

\* line 144-148
ngens(o) == o.ngens

\* variant: the unit exponent is counted from the wrong end
gens_Reversed(o) ==
    LET n == Len(o.degrees)
    IN  [k \in 1..n |-> monomial([j \in 1..n |-> IF j = n + 1 - k THEN 1 ELSE 0])]

\* lines 296-303: one monomial per entry of the degrees, unit exponent in
\* slot k
gens(o) ==
    LET n == Len(o.degrees)
    IN  [k \in 1..n |-> monomial([j \in 1..n |-> IF j = k THEN 1 ELSE 0])]

\* lines 288-289
one_basis(o) == [j \in 1..Len(o.degrees) |-> 0]

\* gens()[i] of a Python list: i counts from 0, a negative i from the end
ListItem(l, i) ==
    IF 0 <= i /\ i < Len(l)
    THEN [raised |-> "", value |-> l[i + 1]]
    ELSE IF i < 0 /\ 0 - i <= Len(l)
         THEN [raised |-> "", value |-> l[Len(l) + i + 1]]
         ELSE [raised |-> "IndexError", value |-> NoValue]

GenIndexArgs == (0 - MaxGens - 1)..(MaxGens + 1)

Ngens(o) ==
    /\ ret = NoRet
    /\ ret' = [op |-> "ngens", obj |-> o, args |-> NoArgs, raised |-> "",
               value |-> ngens(objs[o])]
    /\ UNCHANGED <<cache, objs, self, acc, factors>>

Gens(o) ==
    /\ ret = NoRet
    /\ ret' = [op |-> "gens", obj |-> o, args |-> NoArgs, raised |-> "",
               value |-> gens(objs[o])]
    /\ UNCHANGED <<cache, objs, self, acc, factors>>

\* lines 305-311
Gen(o, i) ==
    LET item == ListItem(gens(objs[o]), i)
    IN  /\ ret = NoRet
        /\ ret' = [op |-> "gen", obj |-> o, args |-> i,
                   raised |-> item.raised, value |-> item.value]
        /\ UNCHANGED <<cache, objs, self, acc, factors>>

Generators ==
    \E o \in Objects :
        \/ Ngens(o)
        \/ Gens(o)
        \/ \E i \in GenIndexArgs : Gen(o, i)

\* the caller takes the returned value (or the exception) and goes on
Return ==
    /\ ret # NoRet
    /\ ret' = NoRet
    /\ UNCHANGED <<cache, objs, self, acc, factors>>

Next == Construct \/ Generators \/ Return

Spec == Init /\ [][Next]_vars

---------------------------------------------------------------------------
(* Arithmetic in one algebra.  product_on_basis is a cached method: its   *)
(* value depends on (self, w1, w2) alone, so the cache is not a part of    *)
(* the state.                                                              *)

\* w1 comes before w2 in the lexicographic order
Precedes(w1, w2) ==
    \E i \in 1..Min(Len(w1), Len(w2)) :
        w1[i] < w2[i] /\ \A j \in 1..(i - 1) : w1[j] = w2[j]

\* variant: the truncation test looks at the left degree only
product_on_basis_LeftOnly(o, w1, w2) ==
    LET deg_left == grading(w1, o.degrees)
    IN  IF deg_left > o.max_deg
        THEN zero
        ELSE monomial([i \in 1..Min(Len(w1), Len(w2)) |-> w1[i] + w2[i]])

\* variant: the truncation test is >= instead of >
product_on_basis_Strict(o, w1, w2) ==
    LET deg_tot == grading(w1, o.degrees) + grading(w2, o.degrees)
    IN  IF deg_tot >= o.max_deg
        THEN zero
        ELSE monomial([i \in 1..Min(Len(w1), Len(w2)) |-> w1[i] + w2[i]])

\* variant: a sign for two odd degrees that stand in the wrong order
product_on_basis_Signed(o, w1, w2) ==
    LET deg_left == grading(w1, o.degrees)
        deg_right == grading(w2, o.degrees)
        m == monomial([i \in 1..Min(Len(w1), Len(w2)) |-> w1[i] + w2[i]])
    IN  IF deg_left + deg_right > o.max_deg
        THEN zero
        ELSE IF deg_left % 2 = 1 /\ deg_right % 2 = 1 /\ Precedes(w2, w1)
             THEN Neg(m)
             ELSE m

\* variant: zip(w1, w1) instead of zip(w1, w2)
product_on_basis_SelfZip(o, w1, w2) ==
    LET deg_tot == grading(w1, o.degrees) + grading(w2, o.degrees)
    IN  IF deg_tot > o.max_deg
        THEN zero
        ELSE monomial([i \in 1..Len(w1) |-> w1[i] + w1[i]])

\* lines 200-207
product_on_basis(o, w1, w2) ==
    LET deg_left == grading(w1, o.degrees)
        deg_right == grading(w2, o.degrees)
        deg_tot == deg_left + deg_right
    IN  IF deg_tot > o.max_deg
        THEN zero
        ELSE monomial([i \in 1..Min(Len(w1), Len(w2)) |-> w1[i] + w2[i]])

\* line 234
degree_on_basis(o, i) == grading(i, o.degrees)

\* the product of two elements, extended linearly from product_on_basis
Mul(o, a, b) ==
    IF a.coef = 0 \/ b.coef = 0
    THEN zero
    ELSE LET p == product_on_basis(o, a.idx, b.idx)
         IN  IF p.coef = 0
             THEN zero
             ELSE [coef |-> a.coef * b.coef * p.coef, idx |-> p.idx]

\* the call of product_on_basis made by a product of two elements, if any
HookCall(o, a, b) ==
    IF a.coef = 0 \/ b.coef = 0
    THEN NoRet
    ELSE [op |-> "product_on_basis", obj |-> o, args |-> <<a.idx, b.idx>>,
          raised |-> "", value |-> product_on_basis(objs[o], a.idx, b.idx)]

\* an algebra has been constructed; the running product starts at one
InitProduct ==
    \E base \in Bases, degrees \in DegreesArgs, max_degree \in MaxDegreeArgs :
        LET norm == NormalizeArgs(None, degrees, max_degree)
            key == CacheKey(base, norm.names, norm.degrees, max_degree)
            o == NewInstance(base, max_degree, norm.names, norm.degrees)
        IN  /\ norm.raised = ""
            /\ cache = [k \in {key} |-> 1]
            /\ objs = <<o>>
            /\ ret = NoRet
            /\ self = 1
            /\ acc = monomial(one_basis(o))
            /\ factors = <<>>

\* acc = acc * w; a zero acc is left alone: its products are zero without
\* any call of product_on_basis
MulRight(w) ==
    /\ Len(factors) < MaxFactors
    /\ acc.coef # 0
    /\ acc' = Mul(objs[self], acc, monomial(w))
    /\ factors' = Append(factors, w)
    /\ ret' = HookCall(self, acc, monomial(w))
    /\ UNCHANGED <<cache, objs, self>>

\* acc = w * acc
MulLeft(w) ==
    /\ Len(factors) < MaxFactors
    /\ acc.coef # 0
    /\ acc' = Mul(objs[self], monomial(w), acc)
    /\ factors' = <<w>> \o factors
    /\ ret' = HookCall(self, monomial(w), acc)
    /\ UNCHANGED <<cache, objs, self>>

\* acc.degree(), for a non-zero monomial
DegreeOnBasis ==
    /\ acc.coef # 0
    /\ ret' = [op |-> "degree_on_basis", obj |-> self, args |-> <<acc.idx>>,
               raised |-> "", value |-> degree_on_basis(objs[self], acc.idx)]
    /\ UNCHANGED <<cache, objs, self, acc, factors>>

Multiply ==
    \E w \in objs[self].indices : MulRight(w) \/ MulLeft(w)

NextProduct == Multiply \/ DegreeOnBasis \/ Gens(self)

SpecProduct == InitProduct /\ [][NextProduct]_vars

---------------------------------------------------------------------------
(* Notions the properties are stated with *)

\* the weighted degree of an exponent vector: sum of exponent * degree
RECURSIVE WeightedSumTo(_, _, _)
WeightedSumTo(w, d, n) ==
    IF n = 0 THEN 0 ELSE w[n] * d[n] + WeightedSumTo(w, d, n - 1)

WeightedDegree(w, d) == WeightedSumTo(w, d, Len(d))

VectorSum(w1, w2) == [i \in 1..Len(w1) |-> w1[i] + w2[i]]

UnitVector(n, k) == [j \in 1..n |-> IF j = k THEN 1 ELSE 0]

IsProductCall == ret.op = "product_on_basis"

\* the number of names a names argument stands for
NameCount(names) ==
    IF names.kind = "str"
    THEN 1 + Cardinality({i \in 1..Len(names.val) : names.val[i] = ","})
    ELSE Len(names.val)

\* ','.join(l)
RECURSIVE Join(_)
Join(l) ==
    IF Len(l) = 0 THEN <<>>
    ELSE IF Len(l) = 1 THEN l[1]
    ELSE l[1] \o <<",">> \o Join(Tail(l))

\* two names arguments that denote the same names
SameNames(a, b) ==
    \/ a = b
    \/ a.kind = "str" /\ b.kind = "list" /\ Len(b.val) > 0 /\ Join(b.val) = a.val
    \/ a.kind = "list" /\ b.kind = "str" /\ Len(a.val) > 0 /\ Join(a.val) = b.val

\* two degrees arguments that denote the same degrees
SameDegrees(a, b) ==
    \/ a = b
    \/ a.kind # "none" /\ b.kind # "none" /\ a.val = b.val

---------------------------------------------------------------------------
(* Properties of SpecProduct *)

\* C1: a product of two basis indices whose weighted degrees sum to more than
\* max_degree is the zero element, and nothing is raised
C1_Truncation ==
    IsProductCall =>
        LET o == objs[ret.obj]
            w1 == ret.args[1]
            w2 == ret.args[2]
        IN  WeightedDegree(w1, o.degrees) + WeightedDegree(w2, o.degrees)
                > o.max_deg
            => ret.value = zero /\ ret.raised = ""

C1_Witness ==
    /\ IsProductCall
    /\ ret.value = zero
    /\ WeightedDegree(ret.args[1], objs[ret.obj].degrees) <= objs[ret.obj].max_deg
    /\ WeightedDegree(ret.args[2], objs[ret.obj].degrees) <= objs[ret.obj].max_deg
    /\ WeightedDegree(ret.args[1], objs[ret.obj].degrees)
         + WeightedDegree(ret.args[2], objs[ret.obj].degrees)
         > objs[ret.obj].max_deg

C3_Closure ==
    LET o == objs[self]
        InBasis(e) ==
            e.coef # 0 =>
                /\ e.idx \in o.indices
                /\ WeightedDegree(e.idx, o.degrees) <= o.max_deg
    IN  /\ factors = <<>> =>
             /\ \A k \in 1..Len(o.degrees) : o.degrees[k] > 0
             /\ o.max_deg >= MaxOf(o.degrees)
             /\ \A w \in o.indices :
                  WeightedDegree(w, o.degrees) <= o.max_deg
        /\ InBasis(acc)
        /\ IsProductCall => InBasis(ret.value)

C3_Witness ==
    /\ Len(factors) >= 2
    /\ \A k \in 1..Len(factors) :
         WeightedDegree(factors[k], objs[self].degrees) > 0
    /\ acc.coef # 0
    /\ acc.idx \in objs[self].indices
    /\ WeightedDegree(acc.idx, objs[self].degrees) = objs[self].max_deg
    /\ Gcd(objs[self].degrees) > 1

C5_SignRule ==
    IsProductCall =>
        LET o == objs[ret.obj]
            w1 == ret.args[1]
            w2 == ret.args[2]
        IN  /\ WeightedDegree(w1, o.degrees) % 2 = 1
            /\ WeightedDegree(w2, o.degrees) % 2 = 1
            /\ WeightedDegree(w1, o.degrees) + WeightedDegree(w2, o.degrees)
                 <= o.max_deg
            => ret.value = Neg(product_on_basis(o, w2, w1))

---------------------------------------------------------------------------
(* Properties of Spec *)

IsClasscall == ret.op = "classcall"

\* C6: a construction with neither names nor degrees, or with max_degree
\* below the largest generator degree, raises ValueError and creates no
\* instance; any other one with max_degree >= max(degrees) succeeds, with
\* names x0..x(n-1) when the names are omitted and degrees all 1 when the
\* degrees are omitted
C6_Outcome ==
    IsClasscall =>
        LET names == ret.args.names
            degrees == ret.args.degrees
            max_degree == ret.args.max_degree
            n == IF names.kind = "none" THEN Len(degrees.val)
                 ELSE NameCount(names)
            degs == IF degrees.kind = "none" THEN [i \in 1..n |-> 1]
                    ELSE degrees.val
        IN  IF names.kind = "none" /\ degrees.kind = "none"
            THEN ret.raised = "ValueError" /\ ret.obj = 0
            ELSE Len(degs) > 0 =>
                 IF \E k \in 1..Len(degs) : max_degree < degs[k]
                 THEN ret.raised = "ValueError" /\ ret.obj = 0
                 ELSE /\ ret.raised = ""
                      /\ ret.obj \in Objects
                      /\ objs[ret.obj].degrees = degs
                      /\ objs[ret.obj].max_deg = max_degree
                      /\ Len(objs[ret.obj].names) = n
                      /\ names.kind = "none" =>
                           \A i \in 1..n :
                               objs[ret.obj].names[i] = DefaultName(i - 1)

C6_NoInstanceOnError ==
    (ret'.op = "classcall" /\ ret'.raised # "") => (objs' = objs /\ cache' = cache)

C8_Gens ==
    ret.op = "gens" =>
        LET o == objs[ret.obj]
            n == Len(o.degrees)
        IN  /\ Len(ret.value) = n
            /\ \A k \in 1..n :
                 /\ ret.value[k] = [coef |-> 1, idx |-> UnitVector(n, k)]
                 /\ degree_on_basis(o, ret.value[k].idx) = o.degrees[k]
                 /\ ret.value[k].idx \in o.indices

C8_Witness ==
    /\ ret.op = "gens"
    /\ Len(ret.value) = 2
    /\ objs[ret.obj].degrees[1] # objs[ret.obj].degrees[2]
    /\ objs[ret.obj].degrees[2] = objs[ret.obj].max_deg

\* C10: in every constructed algebra ngens() is the number of elements of
\* gens(), of names and of degrees, and gen(i) is defined exactly for
\* 0 <= i < ngens()
C10_GeneratorCount ==
    /\ \A o \in Objects :
         /\ ngens(objs[o]) = Len(gens(objs[o]))
         /\ ngens(objs[o]) = Len(objs[o].names)
         /\ ngens(objs[o]) = Len(objs[o].degrees)
    /\ (ret.op = "gen" /\ ret.args >= 0) =>
         (ret.raised = "" <=> ret.args < ngens(objs[ret.obj]))

=============================================================================
